---- MODULE Spec2Model ----
(***************************************************************************)
(* Model of SnipsNluEngine (snips-nlu-lib/src/nlu_engine.rs): loading of   *)
(* a model directory, the intent-parser cascade of `parse`, slot           *)
(* resolution, and direct slot extraction (`extract_slot`).                *)
(*                                                                         *)
(* Text is a sequence of Unicode code points, so that a count of chars     *)
(* (Len) and a count of UTF-8 bytes (Utf8Len) are different numbers.       *)
(* Ranges are Rust ranges: 0-based, half-open, [start |-> s, end |-> e].   *)
(* Option<T> is [some |-> FALSE] or [some |-> TRUE, v |-> x].              *)
(* Result<T> is [ok |-> TRUE, v |-> x] or [ok |-> FALSE, err |-> e].       *)
(***************************************************************************)
EXTENDS Integers, Sequences, FiniteSets, TLC

\* ---------------------------------------------------------------- bounds
\* Longest intent_parsers list a model file declares.
MaxParsers == 2

\* ------------------------------------------------------- Option / Result
None == [some |-> FALSE]

Some(x) == [some |-> TRUE, v |-> x]

Ok(x) == [ok |-> TRUE, v |-> x]

Err(e) == [ok |-> FALSE, err |-> e]

Range(s, e) == [start |-> s, end |-> e]

\* ------------------------------------------------------------------ text
\* "e-acute, space, 2": 3 chars, 4 bytes.
TextA == <<233, 32, 50>>

\* "a b c": 5 chars, 5 bytes.
TextB == <<97, 32, 98, 32, 99>>

\* "!?": the text on which custom entity extraction fails.
TextC == <<33, 63>>

Texts == {TextA, TextB, TextC}

\* Resolved values of the custom gazetteer, as text.
Value1 == <<118, 49>>

Value2 == <<118, 50>>

\* Number of UTF-8 bytes of one code point.
Utf8Width(c) == IF c < 128 THEN 1 ELSE IF c < 2048 THEN 2 ELSE IF c < 65536 THEN 3 ELSE 4

RECURSIVE Utf8Len(_)
\* String::len(): the number of bytes of the text.
Utf8Len(t) == IF t = <<>> THEN 0 ELSE Utf8Width(Head(t)) + Utf8Len(Tail(t))

\* Mutant of CharsCount: the end of the range counted in bytes
\* (input.len()).
CharsCount_bytes(t) == Utf8Len(t)

\* input.chars().count()
CharsCount(t) == Len(t)

\* nlu_utils::string::substring_with_char_range
substring_with_char_range(t, r) == SubSeq(t, r.start + 1, r.end)

\* Mutant of Pop: the first match taken instead of the last.
Pop_first(s) == IF s = <<>> THEN None ELSE Some(s[1])

\* Vec::pop(): the last element, if any.
Pop(s) == IF s = <<>> THEN None ELSE Some(s[Len(s)])

\* slice::first(): the first element, if any.
First(s) == IF s = <<>> THEN None ELSE Some(s[1])

\* ------------------------------------------------------------- ontology
\* Identifiers BuiltinEntityKind::from_identifier accepts.
BuiltinIdentifiers == {"snips/number", "snips/duration"}

\* BuiltinEntityKind::from_identifier: Err on an unknown identifier.
from_identifier(entity_name) ==
    IF entity_name \in BuiltinIdentifiers
    THEN Ok(entity_name)
    ELSE Err([kind |-> "UnknownEntityIdentifier", name |-> entity_name])

\* SlotValue::Custom(text)
Custom(t) == [tag |-> "Custom", value |-> t]

\* SlotValue::Number(NumberValue { value })
Number(n) == [tag |-> "Number", value |-> <<n>>]

\* snips_nlu_ontology::Slot
Slot(raw_value, value, range, entity, slot_name) ==
    [raw_value |-> raw_value, value |-> value, range |-> range,
     entity |-> entity, slot_name |-> slot_name]

\* slot_utils::InternalSlot, the unresolved slot an intent parser returns.
InternalSlot(text, r, entity, slot_name) ==
    [value |-> substring_with_char_range(text, r), char_range |-> r,
     entity |-> entity, slot_name |-> slot_name]

\* ------------------------------------------------------ shared resources
\* CustomEntity { value, resolved_value, range, entity_identifier }
CustomEntity(text, r, resolved, entity) ==
    [value |-> substring_with_char_range(text, r), resolved_value |-> resolved,
     range |-> r, entity_identifier |-> entity]

\* BuiltinEntity { value, range, entity, entity_kind }
BuiltinEntity(text, r, value, kind) ==
    [value |-> substring_with_char_range(text, r), range |-> r,
     entity |-> value, entity_kind |-> kind]

\* What the custom gazetteer finds in each text, in extraction order.
CustomTable ==
    [t \in Texts |->
        IF t = TextB
        THEN Ok(<<CustomEntity(TextB, Range(0, 3), Value1, "flavor_entity"),
                  CustomEntity(TextB, Range(4, 5), Value1, "size_entity"),
                  CustomEntity(TextB, Range(2, 5), Value2, "flavor_entity")>>)
        ELSE IF t = TextA THEN Ok(<<>>)
        ELSE Err([kind |-> "ExtractionFailure", parser |-> "custom"])]

\* What the builtin extractor finds in each text, in extraction order.
BuiltinTable ==
    [t \in Texts |->
        IF t = TextA
        THEN Ok(<<BuiltinEntity(TextA, Range(0, 3), Number(20), "snips/duration"),
                  BuiltinEntity(TextA, Range(2, 3), Number(2), "snips/number"),
                  BuiltinEntity(TextA, Range(0, 3), Number(12), "snips/number")>>)
        ELSE Ok(<<>>)]

\* The SharedResources a load builds.
BuiltResources == [builtin_entity_parser |-> BuiltinTable, custom_entity_parser |-> CustomTable]

\* CustomEntityParser::extract_entities(text, Some(scope))
CustomExtract(parser, text, scope) ==
    IF parser[text].ok
    THEN Ok(SelectSeq(parser[text].v, LAMBDA e : e.entity_identifier \in scope))
    ELSE parser[text]

\* BuiltinEntityParser::extract_entities(text, Some(scope), false)
BuiltinExtract(parser, text, scope) ==
    IF parser[text].ok
    THEN Ok(SelectSeq(parser[text].v, LAMBDA e : e.entity_kind \in scope))
    ELSE parser[text]

\* ------------------------------------------------------ dataset metadata
\* models::Entity
Entity(extensible) == [automatically_extensible |-> extensible]

CoffeeMapping ==
    [s \in {"number_of_cups", "flavor", "size", "brew_time"} |->
        CASE s = "number_of_cups" -> "snips/number"
          [] s = "flavor" -> "flavor_entity"
          [] s = "size" -> "size_entity"
          [] OTHER -> "snips/duration"]

TeaMapping ==
    [s \in {"temp", "kind"} |-> IF s = "temp" THEN "snips/number" ELSE "bogus_entity"]

CustomEntities ==
    [e \in {"flavor_entity", "size_entity"} |-> Entity(e = "flavor_entity")]

\* The DatasetMetadata values a model file may carry.
MetadataBoth ==
    [slot_name_mappings |-> [i \in {"MakeCoffee", "MakeTea"} |->
                                IF i = "MakeCoffee" THEN CoffeeMapping ELSE TeaMapping],
     entities |-> CustomEntities]

MetadataCoffee ==
    [slot_name_mappings |-> [i \in {"MakeCoffee"} |-> CoffeeMapping],
     entities |-> CustomEntities]

Metadatas == {MetadataBoth, MetadataCoffee}

\* --------------------------------------------------------- intent parsers
ParserKinds == {"PFail", "PCoffee", "PTea"}

\* The intent a parser kind recognises.
ParserIntent(p) == IF p = "PCoffee" THEN "MakeCoffee" ELSE "MakeTea"

\* The unresolved slots a parser kind tags in a text.
ParserSlots(p, text) ==
    IF p = "PCoffee"
    THEN CASE text = TextA ->
                <<InternalSlot(TextA, Range(0, 1), "size_entity", "size"),
                  InternalSlot(TextA, Range(2, 3), "snips/number", "number_of_cups"),
                  InternalSlot(TextA, Range(0, 3), "flavor_entity", "flavor"),
                  InternalSlot(TextA, Range(0, 3), "snips/duration", "brew_time")>>
           [] text = TextB ->
                <<InternalSlot(TextB, Range(0, 3), "flavor_entity", "flavor"),
                  InternalSlot(TextB, Range(4, 5), "snips/number", "number_of_cups"),
                  InternalSlot(TextB, Range(4, 5), "size_entity", "size")>>
           [] OTHER -> <<>>
    ELSE CASE text = TextA -> <<InternalSlot(TextA, Range(2, 3), "snips/number", "temp")>>
           [] text = TextB -> <<InternalSlot(TextB, Range(0, 1), "bogus_entity", "kind")>>
           [] OTHER -> <<>>

\* IntentParser::parse(input, set_intents): Err, Ok(None) or
\* Ok(Some(InternalParsingResult { intent, slots })).
IntentParserParse(p, input, set_intents) ==
    IF p = "PFail"
    THEN IF input = TextC THEN Err([kind |-> "ParserFailure", parser |-> p]) ELSE Ok(None)
    ELSE IF set_intents.some /\ ParserIntent(p) \notin set_intents.v
         THEN Ok(None)
         ELSE Ok(Some([intent |-> [intent_name |-> ParserIntent(p)],
                       slots |-> ParserSlots(p, input)]))

\* ---------------------------------------------------------- slot utilities
\* slot_utils::resolve_custom_slot(slot, entity, custom_entities, parser).
\* The call passes the slot and not the text: the extensible fallback takes
\* the slot's own text and range.
resolve_custom_slot(slot, entity, custom_entities) ==
    LET found == First(SelectSeq(custom_entities,
                                 LAMBDA e : e.entity_identifier = slot.entity))
    IN  IF found.some
        THEN Ok(Some(Slot(found.v.value, Custom(found.v.resolved_value),
                          Some(found.v.range), slot.entity, slot.slot_name)))
        ELSE IF entity.automatically_extensible
        THEN Ok(Some(Slot(slot.value, Custom(slot.value), Some(slot.char_range),
                          slot.entity, slot.slot_name)))
        ELSE Ok(None)

\* slot_utils::resolve_builtin_slot(slot, builtin_entities, parser).
\* tests::parse_works expects the range of a builtin slot resolved by parse
\* to be present (Some(8..11)).
resolve_builtin_slot(slot, builtin_entities) ==
    LET kind == from_identifier(slot.entity)
        found == First(SelectSeq(builtin_entities, LAMBDA e : e.entity_kind = kind.v))
    IN  IF ~kind.ok THEN kind
        ELSE IF found.some
        THEN Ok(Some(Slot(found.v.value, found.v.entity,
                          Some(slot.char_range), slot.entity, slot.slot_name)))
        ELSE Ok(None)

\* One turn of the loop of resolve_slots: the custom path when the slot's
\* entity is a key of dataset_metadata.entities, else the builtin path.
resolve_slot(dataset_metadata, slot, builtin_entities, custom_entities) ==
    IF slot.entity \in DOMAIN dataset_metadata.entities
    THEN resolve_custom_slot(slot, dataset_metadata.entities[slot.entity], custom_entities)
    ELSE resolve_builtin_slot(slot, builtin_entities)

RECURSIVE resolve_loop_front(_, _, _, _, _)
\* Mutant of resolve_loop: a resolved slot is put at the front of
\* resolved_slots.
resolve_loop_front(dataset_metadata, slots, builtin_entities, custom_entities, resolved_slots) ==
    IF slots = <<>> THEN Ok(resolved_slots)
    ELSE LET r == resolve_slot(dataset_metadata, Head(slots), builtin_entities, custom_entities)
         IN  IF ~r.ok THEN r
             ELSE resolve_loop_front(dataset_metadata, Tail(slots), builtin_entities,
                                     custom_entities,
                                     IF r.v.some THEN <<r.v.v>> \o resolved_slots
                                     ELSE resolved_slots)

RECURSIVE resolve_loop(_, _, _, _, _)
\* The loop of resolve_slots: a failure ends it, a None is skipped, a
\* Some is pushed at the end of resolved_slots.
resolve_loop(dataset_metadata, slots, builtin_entities, custom_entities, resolved_slots) ==
    IF slots = <<>> THEN Ok(resolved_slots)
    ELSE LET r == resolve_slot(dataset_metadata, Head(slots), builtin_entities, custom_entities)
         IN  IF ~r.ok THEN r
             ELSE resolve_loop(dataset_metadata, Tail(slots), builtin_entities, custom_entities,
                               IF r.v.some THEN Append(resolved_slots, r.v.v) ELSE resolved_slots)

\* SnipsNluEngine::resolve_slots
resolve_slots(dataset_metadata, shared_resources, text, slots, builtin_filter, custom_filter) ==
    LET builtin_entities == BuiltinExtract(shared_resources.builtin_entity_parser, text, builtin_filter)
        custom_entities == CustomExtract(shared_resources.custom_entity_parser, text, custom_filter)
    IN  IF ~builtin_entities.ok THEN builtin_entities
        ELSE IF ~custom_entities.ok THEN custom_entities
        ELSE resolve_loop(dataset_metadata, slots, builtin_entities.v, custom_entities.v, <<>>)

\* The entity extractions resolve_slots runs, in order.
resolve_slots_events(shared_resources, text, builtin_filter) ==
    IF BuiltinExtract(shared_resources.builtin_entity_parser, text, builtin_filter).ok
    THEN <<"resolve_slots", "builtin_extract", "custom_extract">>
    ELSE <<"resolve_slots", "builtin_extract">>

\* ------------------------------------------------- direct slot extraction
\* extract_custom_slot
extract_custom_slot(input, entity_name, slot_name, custom_entity, custom_entity_parser) ==
    LET custom_entities == CustomExtract(custom_entity_parser, input, {entity_name})
        matched_entity == Pop(custom_entities.v)
    IN  IF ~custom_entities.ok THEN custom_entities
        ELSE IF matched_entity.some
        THEN Ok(Some(Slot(matched_entity.v.value, Custom(matched_entity.v.resolved_value),
                          Some(matched_entity.v.range), entity_name, slot_name)))
        ELSE IF custom_entity.automatically_extensible
        THEN Ok(Some(Slot(input, Custom(input), Some(Range(0, CharsCount(input))),
                          entity_name, slot_name)))
        ELSE Ok(None)

\* Mutant of extract_builtin_slot: the range of the match reported at the
\* slot level.
extract_builtin_slot_ranged(input, entity_name, slot_name, builtin_entity_parser) ==
    LET builtin_entity_kind == from_identifier(entity_name)
        builtin_entities == BuiltinExtract(builtin_entity_parser, input, {builtin_entity_kind.v})
        builtin_entity == First(builtin_entities.v)
    IN  IF ~builtin_entity_kind.ok THEN builtin_entity_kind
        ELSE IF ~builtin_entities.ok THEN builtin_entities
        ELSE IF builtin_entity.some
        THEN Ok(Some(Slot(substring_with_char_range(input, builtin_entity.v.range),
                          builtin_entity.v.entity, Some(builtin_entity.v.range),
                          entity_name, slot_name)))
        ELSE Ok(None)

\* extract_builtin_slot
extract_builtin_slot(input, entity_name, slot_name, builtin_entity_parser) ==
    LET builtin_entity_kind == from_identifier(entity_name)
        builtin_entities == BuiltinExtract(builtin_entity_parser, input, {builtin_entity_kind.v})
        builtin_entity == First(builtin_entities.v)
    IN  IF ~builtin_entity_kind.ok THEN builtin_entity_kind
        ELSE IF ~builtin_entities.ok THEN builtin_entities
        ELSE IF builtin_entity.some
        THEN Ok(Some(Slot(substring_with_char_range(input, builtin_entity.v.range),
                          builtin_entity.v.entity, None, entity_name, slot_name)))
        ELSE Ok(None)

\* ---------------------------------------------------------- model loading
\* ::MODEL_VERSION, the version this engine expects.
MODEL_VERSION == "0.19.0"

Versions == {"0.18.0", "0.19.0"}

\* Directory names a model file may list under intent_parsers; "PMissing"
\* has no metadata.json.
ParserNames == ParserKinds \cup {"PMissing"}

\* All sequences of distinct elements of S of length at most n: a model
\* lists each parser directory once.
SeqsUpTo(S, n) ==
    UNION {{s \in [1..k -> S] : \A i, j \in 1..k : s[i] = s[j] => i = j} : k \in 0..n}

\* A model directory: its nlu_engine.json (is it there, is it JSON, its
\* model_version field, does the rest deserialize as NluEngineModel), and
\* whether its language and resources load.
ModelDirs ==
    [exists : BOOLEAN, json : BOOLEAN, model_version : {None} \cup {Some(v) : v \in Versions},
     schema_ok : BOOLEAN, language_ok : BOOLEAN, resources_ok : BOOLEAN,
     dataset_metadata : Metadatas, intent_parsers : SeqsUpTo(ParserNames, MaxParsers)]

\* with_context(|_| ...)
WithContext(r, context) == IF r.ok THEN r ELSE Err([cause |-> r.err, context |-> context])

\* Mutant of check_model_version: the version is read and not compared.
check_model_version_any(dir) ==
    IF ~dir.exists THEN Err([kind |-> "Io"])
    ELSE IF ~dir.json \/ ~dir.model_version.some THEN Err([kind |-> "Json"])
    ELSE Ok("checked")

\* SnipsNluEngine::check_model_version
check_model_version(dir) ==
    IF ~dir.exists THEN Err([kind |-> "Io"])
    ELSE IF ~dir.json \/ ~dir.model_version.some THEN Err([kind |-> "Json"])
    ELSE IF dir.model_version.v # MODEL_VERSION
    THEN Err([kind |-> "WrongModelVersion", found |-> dir.model_version.v,
              expected |-> MODEL_VERSION])
    ELSE Ok("checked")

\* SnipsNluEngine::load_model
load_model(dir) ==
    LET checked == WithContext(check_model_version(dir), "ModelLoad")
    IN  IF ~checked.ok THEN checked
        ELSE IF ~dir.schema_ok
        THEN WithContext(Err([kind |-> "Json"]), "Invalid nlu engine file")
        ELSE Ok([dataset_metadata |-> dir.dataset_metadata,
                 intent_parsers |-> dir.intent_parsers])

RECURSIVE load_intent_parsers(_, _)
\* SnipsNluEngine::load_intent_parsers: the parsers in declared order, or
\* the failure of the first one that cannot be built.
load_intent_parsers(names, built) ==
    IF names = <<>> THEN Ok(built)
    ELSE IF Head(names) = "PMissing"
    THEN WithContext(Err([kind |-> "Io"]), "Could not open metadata file of parser")
    ELSE load_intent_parsers(Tail(names), Append(built, Head(names)))

\* SnipsNluEngine::from_path
from_path(dir) ==
    LET model == load_model(dir)
        parsers == load_intent_parsers(model.v.intent_parsers, <<>>)
    IN  IF ~model.ok THEN model
        ELSE IF ~dir.language_ok THEN Err([kind |-> "UnknownLanguage"])
        ELSE IF ~dir.resources_ok THEN Err([kind |-> "Resources"])
        ELSE IF ~parsers.ok THEN parsers
        ELSE Ok([dataset_metadata |-> model.v.dataset_metadata,
                 intent_parsers |-> parsers.v,
                 shared_resources |-> BuiltResources])

RECURSIVE BuildAttempts(_)
\* What load_intent_parsers does for a list of names, up to the first name
\* whose metadata file cannot be opened.
BuildAttempts(names) ==
    IF names = <<>> THEN <<>>
    ELSE IF Head(names) = "PMissing" THEN <<"open_parser_metadata">>
    ELSE <<"open_parser_metadata", "build_intent_parser">> \o BuildAttempts(Tail(names))

\* What from_path does, in order, up to its return.
from_path_events(dir) ==
    <<"check_model_version">>
    \o (IF ~WithContext(check_model_version(dir), "ModelLoad").ok THEN <<>>
        ELSE <<"read_model">>
        \o (IF ~load_model(dir).ok THEN <<>>
            ELSE <<"language">>
            \o (IF ~dir.language_ok THEN <<>>
                ELSE <<"load_shared_resources">>
                \o (IF ~dir.resources_ok THEN <<>>
                    ELSE BuildAttempts(dir.intent_parsers)))))

\* ------------------------------------------------------------------ state
VARIABLES
    engine_status,      \* "none", "loaded" or "failed"
    dataset_metadata,   \* SnipsNluEngine.dataset_metadata
    intent_parsers,     \* SnipsNluEngine.intent_parsers
    shared_resources,   \* SnipsNluEngine.shared_resources
    model_dir,          \* the directory given to from_path
    load_result,        \* what from_path returned
    load_events,        \* what from_path did
    calls               \* the parse / extract_slot calls in progress

vars == <<engine_status, dataset_metadata, intent_parsers, shared_resources,
          model_dir, load_result, load_events, calls>>

engine_vars == <<dataset_metadata, intent_parsers, shared_resources>>

\* The threads of the host application that call the engine.
Callers == {"t1", "t2"}

\* The intents_filter arguments of parse.
Filters == {None, Some(<<"MakeTea">>)}

\* The (intent_name, slot_name) arguments of extract_slot.
SlotArgs ==
    {<<"MakeCoffee", "flavor">>, <<"MakeCoffee", "size">>, <<"MakeCoffee", "number_of_cups">>,
     <<"MakeTea", "kind">>, <<"MakeCoffee", "sugar">>, <<"Order", "flavor">>}

\* A caller that is not in a call.
IdleCall ==
    [op |-> "idle", pc |-> "idle", input |-> <<>>, intents_filter |-> None,
     set_intents |-> None, intent_name |-> "", slot_name |-> "", entity_name |-> "",
     idx |-> 0, matched |-> None, invoked |-> <<>>, events |-> <<>>, result |-> None]

\* IntentParserResult
IntentParserResult(input, intent, slots) == [input |-> input, intent |-> intent, slots |-> slots]

\* return: the call is over with result r.
Return(call, r) == [call EXCEPT !.pc = "done", !.result = Some(r)]

\* The elements of a list, as HashSet::from_iter collects them.
ToSet(s) == {s[i] : i \in 1..Len(s)}

Init ==
    /\ engine_status = "none"
    /\ dataset_metadata = [slot_name_mappings |-> <<>>, entities |-> <<>>]
    /\ intent_parsers = <<>>
    /\ shared_resources = None
    /\ model_dir = None
    /\ load_result = None
    /\ load_events = <<>>
    /\ calls = [c \in Callers |-> IdleCall]

\* SnipsNluEngine::from_path(dir): the engine, or no engine and the failure.
Load(dir) ==
    /\ engine_status = "none"
    /\ model_dir' = Some(dir)
    /\ load_result' = Some(IF from_path(dir).ok THEN Ok("engine") ELSE from_path(dir))
    /\ load_events' = from_path_events(dir)
    /\ IF from_path(dir).ok
       THEN /\ engine_status' = "loaded"
            /\ dataset_metadata' = from_path(dir).v.dataset_metadata
            /\ intent_parsers' = from_path(dir).v.intent_parsers
            /\ shared_resources' = from_path(dir).v.shared_resources
       ELSE /\ engine_status' = "failed"
            /\ UNCHANGED engine_vars
    /\ UNCHANGED calls

\* ------------------------------------------------------------------ parse
\* Mutant of parse_enter: an engine without parsers is an error.
parse_enter_strict(parsers, input, intents_filter) ==
    LET call == [IdleCall EXCEPT !.op = "parse", !.input = input,
                                 !.intents_filter = intents_filter]
    IN  IF parsers = <<>>
        THEN Return(call, Err([kind |-> "NoIntentParser"]))
        ELSE [call EXCEPT !.pc = "cascade", !.idx = 1,
                          !.set_intents = IF intents_filter.some
                                          THEN Some(ToSet(intents_filter.v))
                                          ELSE None]

\* parse, up to the loop: the empty parser list returns at once, else the
\* allow-list becomes a set and the cascade starts at the first parser.
parse_enter(parsers, input, intents_filter) ==
    LET call == [IdleCall EXCEPT !.op = "parse", !.input = input,
                                 !.intents_filter = intents_filter]
    IN  IF parsers = <<>>
        THEN Return(call, Ok(IntentParserResult(input, None, None)))
        ELSE [call EXCEPT !.pc = "cascade", !.idx = 1,
                          !.set_intents = IF intents_filter.some
                                          THEN Some(ToSet(intents_filter.v))
                                          ELSE None]

\* Mutant of parse_invoke: a match does not leave the loop while a parser
\* is left (the last match wins).
parse_invoke_last_match(parsers, call) ==
    LET r == IntentParserParse(parsers[call.idx], call.input, call.set_intents)
        invoked == [call EXCEPT !.invoked = Append(call.invoked, call.idx)]
        kept == IF r.ok /\ r.v.some THEN [invoked EXCEPT !.matched = r.v] ELSE invoked
    IN  IF ~r.ok THEN Return(invoked, r)
        ELSE IF call.idx < Len(parsers) THEN [kept EXCEPT !.idx = call.idx + 1]
        ELSE IF kept.matched.some THEN [kept EXCEPT !.pc = "resolve"]
        ELSE Return(invoked, Ok(IntentParserResult(call.input, None, None)))

\* Mutant of parse_invoke: the failure of a parser is taken as its
\* declining.
parse_invoke_lenient(parsers, call) ==
    LET r == IntentParserParse(parsers[call.idx], call.input, call.set_intents)
        invoked == [call EXCEPT !.invoked = Append(call.invoked, call.idx)]
    IN  IF r.ok /\ r.v.some THEN [invoked EXCEPT !.pc = "resolve", !.matched = r.v]
        ELSE IF call.idx < Len(parsers) THEN [invoked EXCEPT !.idx = call.idx + 1]
        ELSE Return(invoked, Ok(IntentParserResult(call.input, None, None)))

\* One turn of the loop of parse: the parser at idx is invoked; its failure
\* is the failure of the call, its match leaves the loop for slot
\* resolution, its declining moves on to the next parser, if any.
parse_invoke(parsers, call) ==
    LET r == IntentParserParse(parsers[call.idx], call.input, call.set_intents)
        invoked == [call EXCEPT !.invoked = Append(call.invoked, call.idx)]
    IN  IF ~r.ok THEN Return(invoked, r)
        ELSE IF r.v.some THEN [invoked EXCEPT !.pc = "resolve", !.matched = r.v]
        ELSE IF call.idx < Len(parsers) THEN [invoked EXCEPT !.idx = call.idx + 1]
        ELSE Return(invoked, Ok(IntentParserResult(call.input, None, None)))

\* The builtin entity kinds mapped under an intent.
builtin_entity_scope(metadata, intent_name) ==
    {from_identifier(metadata.slot_name_mappings[intent_name][s]).v :
        s \in {n \in DOMAIN metadata.slot_name_mappings[intent_name] :
                  from_identifier(metadata.slot_name_mappings[intent_name][n]).ok}}

\* Every custom entity of the dataset.
custom_entity_scope(metadata) == DOMAIN metadata.entities

\* parse, on a match: the intent is looked up in the metadata, the slots
\* are resolved, and the result carries the intent and the resolved slots.
parse_resolve(metadata, resources, call) ==
    LET intent == call.matched.v.intent
        looked == [call EXCEPT !.events = Append(call.events, "metadata_lookup")]
        resolved == WithContext(
            resolve_slots(metadata, resources, call.input, call.matched.v.slots,
                          builtin_entity_scope(metadata, intent.intent_name),
                          custom_entity_scope(metadata)),
            "Cannot resolve slots")
        ran == [looked EXCEPT !.events = looked.events \o
                    resolve_slots_events(resources, call.input,
                                         builtin_entity_scope(metadata, intent.intent_name))]
    IN  IF intent.intent_name \notin DOMAIN metadata.slot_name_mappings
        THEN Return(looked, Err([kind |-> "CannotFindIntent", name |-> intent.intent_name]))
        ELSE IF ~resolved.ok THEN Return(ran, resolved)
        ELSE Return(ran, Ok(IntentParserResult(call.input, Some(intent), Some(resolved.v))))

\* ----------------------------------------------------------- extract_slot
\* Mutant of extract_slot_lookup: a slot the intent does not map is no slot
\* found, not an error.
extract_slot_lookup_lenient(metadata, input, intent_name, slot_name) ==
    LET call == [IdleCall EXCEPT !.op = "extract_slot", !.input = input,
                                 !.intent_name = intent_name, !.slot_name = slot_name,
                                 !.events = <<"metadata_lookup">>]
    IN  IF intent_name \notin DOMAIN metadata.slot_name_mappings
        THEN Return(call, Err([kind |-> "UnknownIntent", name |-> intent_name]))
        ELSE IF slot_name \notin DOMAIN metadata.slot_name_mappings[intent_name]
        THEN Return(call, Ok(None))
        ELSE [call EXCEPT !.pc = "extract",
                          !.entity_name = metadata.slot_name_mappings[intent_name][slot_name]]

\* extract_slot, the lookup of the entity name of (intent_name, slot_name).
extract_slot_lookup(metadata, input, intent_name, slot_name) ==
    LET call == [IdleCall EXCEPT !.op = "extract_slot", !.input = input,
                                 !.intent_name = intent_name, !.slot_name = slot_name,
                                 !.events = <<"metadata_lookup">>]
    IN  IF intent_name \notin DOMAIN metadata.slot_name_mappings
        THEN Return(call, Err([kind |-> "UnknownIntent", name |-> intent_name]))
        ELSE IF slot_name \notin DOMAIN metadata.slot_name_mappings[intent_name]
        THEN Return(call, Err([kind |-> "UnknownSlot", name |-> slot_name]))
        ELSE [call EXCEPT !.pc = "extract",
                          !.entity_name = metadata.slot_name_mappings[intent_name][slot_name]]

\* extract_slot, after the lookup: the custom extractor for a custom
\* entity, the builtin extractor otherwise.
extract_slot_run(metadata, resources, call) ==
    IF call.entity_name \in DOMAIN metadata.entities
    THEN Return([call EXCEPT !.events = Append(call.events, "custom_extract")],
                extract_custom_slot(call.input, call.entity_name, call.slot_name,
                                    metadata.entities[call.entity_name],
                                    resources.custom_entity_parser))
    ELSE Return([call EXCEPT !.events = call.events \o
                     (IF from_identifier(call.entity_name).ok
                      THEN <<"builtin_extract">> ELSE <<>>)],
                extract_builtin_slot(call.input, call.entity_name, call.slot_name,
                                     resources.builtin_entity_parser))

\* SnipsNluEngine::extract_slot
extract_slot(metadata, resources, input, intent_name, slot_name) ==
    LET looked == extract_slot_lookup(metadata, input, intent_name, slot_name)
    IN  IF looked.pc = "done" THEN looked ELSE extract_slot_run(metadata, resources, looked)

\* ---------------------------------------------------------------- actions
\* A caller enters parse(input, intents_filter).
Parse(c, input, intents_filter) ==
    /\ engine_status = "loaded"
    /\ calls[c].pc = "idle"
    /\ calls' = [calls EXCEPT ![c] = parse_enter(intent_parsers, input, intents_filter)]
    /\ UNCHANGED <<engine_status, engine_vars, model_dir, load_result, load_events>>

\* Mutant of ParseInvoke: a parser that fails is taken out of the engine's
\* list.
ParseInvoke_drops_failed(c) ==
    /\ calls[c].pc = "cascade"
    /\ calls' = [calls EXCEPT ![c] = parse_invoke(intent_parsers, calls[c])]
    /\ intent_parsers' =
          IF IntentParserParse(intent_parsers[calls[c].idx], calls[c].input,
                               calls[c].set_intents).ok
          THEN intent_parsers
          ELSE SelectSeq(intent_parsers, LAMBDA p : p # intent_parsers[calls[c].idx])
    /\ UNCHANGED <<engine_status, dataset_metadata, shared_resources, model_dir,
                   load_result, load_events>>

\* A caller in the cascade invokes its next parser.
ParseInvoke(c) ==
    /\ calls[c].pc = "cascade"
    /\ calls' = [calls EXCEPT ![c] = parse_invoke(intent_parsers, calls[c])]
    /\ UNCHANGED <<engine_status, engine_vars, model_dir, load_result, load_events>>

\* A caller whose parser matched resolves the slots and returns.
ParseResolve(c) ==
    /\ calls[c].pc = "resolve"
    /\ calls' = [calls EXCEPT ![c] = parse_resolve(dataset_metadata, shared_resources, calls[c])]
    /\ UNCHANGED <<engine_status, engine_vars, model_dir, load_result, load_events>>

\* A caller calls extract_slot(input, intent_name, slot_name).
ExtractSlot(c, input, intent_name, slot_name) ==
    /\ engine_status = "loaded"
    /\ calls[c].pc = "idle"
    /\ calls' = [calls EXCEPT ![c] =
                    extract_slot(dataset_metadata, shared_resources, input,
                                 intent_name, slot_name)]
    /\ UNCHANGED <<engine_status, engine_vars, model_dir, load_result, load_events>>

\* The caller takes the result; it may call again.
Finish(c) ==
    /\ calls[c].pc = "done"
    /\ calls' = [calls EXCEPT ![c] = IdleCall]
    /\ UNCHANGED <<engine_status, engine_vars, model_dir, load_result, load_events>>

Next ==
    \/ \E dir \in ModelDirs : Load(dir)
    \/ \E c \in Callers, input \in Texts, f \in Filters : Parse(c, input, f)
    \/ \E c \in Callers : ParseInvoke(c)
    \/ \E c \in Callers : ParseResolve(c)
    \/ \E c \in Callers, input \in Texts, a \in SlotArgs : ExtractSlot(c, input, a[1], a[2])
    \/ \E c \in Callers : Finish(c)

Spec == Init /\ [][Next]_vars

\* ------------------------------------------------------------- properties
\* What the parser at position i of the engine answers to a call.
Answer(i, call) == IntentParserParse(intent_parsers[i], call.input, call.set_intents)

\* The "nothing matched" result of a call.
NothingMatched(call) == Some(Ok(IntentParserResult(call.input, None, None)))

\* The entity extractions a call has run.
Extractions(call) ==
    {i \in 1..Len(call.events) : call.events[i] \in {"builtin_extract", "custom_extract"}}

\* C1: in every parse call the parsers are invoked in list order from the
\* first one on; a parser that matched is the last one invoked (none after
\* it is invoked in that call), and a result with an intent carries the
\* intent of that parser.
C1_CascadeFirstMatchWins ==
    \A c \in Callers :
        LET call == calls[c]
        IN  call.op = "parse" =>
            /\ Len(call.invoked) <= Len(intent_parsers)
            /\ \A i \in 1..Len(call.invoked) : call.invoked[i] = i
            /\ \A i \in 1..Len(call.invoked) :
                  (Answer(i, call).ok /\ Answer(i, call).v.some) =>
                      /\ i = Len(call.invoked)
                      /\ call.pc \in {"resolve", "done"}
                      /\ (call.pc = "done" /\ call.result.v.ok) =>
                            call.result.v.v.intent = Some(Answer(i, call).v.v.intent)
            /\ (call.pc = "done" /\ call.result.v.ok /\ call.result.v.v.intent.some) =>
                  /\ call.invoked # <<>>
                  /\ Answer(Len(call.invoked), call).ok
                  /\ Answer(Len(call.invoked), call).v.some

\* A parse returned the intent of a parser that is followed in the list by
\* a parser that would have matched too and was not invoked.
C1_Witness ==
    \E c \in Callers :
        /\ calls[c].op = "parse" /\ calls[c].pc = "done"
        /\ calls[c].result.v.ok /\ calls[c].result.v.v.intent.some
        /\ Len(calls[c].invoked) < Len(intent_parsers)
        /\ Answer(Len(intent_parsers), calls[c]).ok
        /\ Answer(Len(intent_parsers), calls[c]).v.some
        /\ Answer(Len(intent_parsers), calls[c]).v.v.intent
              # calls[c].result.v.v.intent.v

\* C2: a parser whose parse step fails ends the call with that error: it is
\* the last parser invoked, no metadata lookup, no entity extraction and no
\* slot resolution has run, and the call returns no result.
C2_ParserFailureIsFatal ==
    \A c \in Callers :
        LET call == calls[c]
        IN  call.op = "parse" =>
            \A i \in 1..Len(call.invoked) :
                ~Answer(i, call).ok =>
                    /\ i = Len(call.invoked)
                    /\ call.pc = "done"
                    /\ call.result = Some(Answer(i, call))
                    /\ call.events = <<>>

\* A parse failed on its first parser although the next one would match.
C2_Witness ==
    \E c \in Callers :
        /\ calls[c].op = "parse" /\ calls[c].pc = "done"
        /\ ~calls[c].result.v.ok
        /\ calls[c].invoked = <<1>>
        /\ Len(intent_parsers) > 1
        /\ Answer(2, calls[c]).ok /\ Answer(2, calls[c]).v.some

\* C3: a parse on an engine whose parser list is empty or whose parsers all
\* decline returns Ok with the input echoed and intent and slots absent,
\* without any metadata lookup or extraction; on the empty list no parser
\* is invoked either.
C3_NothingMatched ==
    \A c \in Callers :
        LET call == calls[c]
        IN  (/\ call.op = "parse" /\ call.pc = "done"
             /\ \A i \in 1..Len(intent_parsers) :
                   Answer(i, call).ok /\ ~Answer(i, call).v.some) =>
                /\ call.result = NothingMatched(call)
                /\ call.events = <<>>
                /\ intent_parsers = <<>> => call.invoked = <<>>

\* A parse with an allow-list returned "nothing matched" after every parser
\* of a non-empty list declined.
C3_Witness ==
    \E c \in Callers :
        /\ calls[c].op = "parse" /\ calls[c].pc = "done"
        /\ calls[c].intents_filter.some
        /\ calls[c].invoked = <<1, 2>>
        /\ calls[c].result = NothingMatched(calls[c])

\* C4: a load of a directory whose nlu_engine.json carries a model_version
\* other than MODEL_VERSION fails with WrongModelVersion(found, expected),
\* whatever the rest of the file is; it builds no shared resources and no
\* parser, and leaves no engine.
C4_WrongModelVersion ==
    (/\ model_dir.some
     /\ model_dir.v.exists /\ model_dir.v.json
     /\ model_dir.v.model_version.some
     /\ model_dir.v.model_version.v # MODEL_VERSION) =>
        /\ engine_status = "failed"
        /\ load_result.some /\ ~load_result.v.ok
        /\ load_result.v.err.cause = [kind |-> "WrongModelVersion",
                                      found |-> model_dir.v.model_version.v,
                                      expected |-> MODEL_VERSION]
        /\ \A i \in 1..Len(load_events) :
              load_events[i] \notin {"read_model", "load_shared_resources",
                                     "build_intent_parser"}
        /\ shared_resources = None
        /\ intent_parsers = <<>>

\* A directory that is well-formed in everything but its version was loaded.
C4_Witness ==
    /\ engine_status = "failed"
    /\ model_dir.v.exists /\ model_dir.v.json /\ model_dir.v.schema_ok
    /\ model_dir.v.language_ok /\ model_dir.v.resources_ok
    /\ model_dir.v.intent_parsers = <<"PCoffee", "PTea">>
    /\ model_dir.v.model_version = Some("0.18.0")

\* The matches of the custom extractor for one entity in a text, in
\* extraction order.
MatchesOf(entity_name, input) ==
    SelectSeq(shared_resources.custom_entity_parser[input].v,
              LAMBDA e : e.entity_identifier = entity_name)

\* An extract_slot call on a custom entity whose extraction succeeded.
CustomExtractionDone(call) ==
    /\ call.op = "extract_slot" /\ call.pc = "done"
    /\ call.entity_name \in DOMAIN dataset_metadata.entities
    /\ shared_resources.custom_entity_parser[call.input].ok

\* C5: extract_slot on a custom entity with one or more matches returns the
\* slot of the last match (its text, its resolved value, its range), also
\* when the entity is automatically extensible.
C5_LastCustomMatch ==
    \A c \in Callers :
        LET call == calls[c]
            ms == MatchesOf(call.entity_name, call.input)
        IN  (CustomExtractionDone(call) /\ ms # <<>>) =>
                call.result = Some(Ok(Some(
                    [raw_value |-> ms[Len(ms)].value,
                     value |-> [tag |-> "Custom", value |-> ms[Len(ms)].resolved_value],
                     range |-> Some(ms[Len(ms)].range),
                     entity |-> call.entity_name,
                     slot_name |-> call.slot_name])))

\* extract_slot returned a slot for an extensible entity with two different
\* matches.
C5_Witness ==
    \E c \in Callers :
        /\ CustomExtractionDone(calls[c])
        /\ dataset_metadata.entities[calls[c].entity_name].automatically_extensible
        /\ Len(MatchesOf(calls[c].entity_name, calls[c].input)) = 2
        /\ MatchesOf(calls[c].entity_name, calls[c].input)[1]
              # MatchesOf(calls[c].entity_name, calls[c].input)[2]
        /\ calls[c].result.v.ok /\ calls[c].result.v.v.some

\* C6: extract_slot on a custom entity without a match returns, for an
\* extensible entity, the slot whose raw_value and value are the whole input
\* and whose range is [0, number of chars of the input); for an entity that
\* is not extensible, Ok(None).
C6_ExtensibleFallback ==
    \A c \in Callers :
        LET call == calls[c]
        IN  (CustomExtractionDone(call) /\ MatchesOf(call.entity_name, call.input) = <<>>) =>
                IF dataset_metadata.entities[call.entity_name].automatically_extensible
                THEN call.result = Some(Ok(Some(
                        [raw_value |-> call.input,
                         value |-> [tag |-> "Custom", value |-> call.input],
                         range |-> Some([start |-> 0, end |-> Len(call.input)]),
                         entity |-> call.entity_name,
                         slot_name |-> call.slot_name])))
                ELSE call.result = Some(Ok(None))

\* extract_slot fell back to the whole input on a text with more bytes than
\* chars.
C6_Witness ==
    \E c \in Callers :
        /\ CustomExtractionDone(calls[c])
        /\ MatchesOf(calls[c].entity_name, calls[c].input) = <<>>
        /\ dataset_metadata.entities[calls[c].entity_name].automatically_extensible
        /\ Utf8Len(calls[c].input) > Len(calls[c].input)
        /\ calls[c].result.v.ok /\ calls[c].result.v.v.some

\* C7: extract_slot with an intent that is not a key of slot_name_mappings,
\* or a slot that is not mapped under the intent, fails with an error that
\* names it, and runs neither extractor.
C7_UnknownIntentOrSlot ==
    \A c \in Callers :
        LET call == calls[c]
            known == call.intent_name \in DOMAIN dataset_metadata.slot_name_mappings
        IN  call.op = "extract_slot" =>
            /\ ~known =>
                  /\ call.pc = "done"
                  /\ call.result = Some(Err([kind |-> "UnknownIntent",
                                             name |-> call.intent_name]))
                  /\ Extractions(call) = {}
            /\ (known /\ call.slot_name \notin
                    DOMAIN dataset_metadata.slot_name_mappings[call.intent_name]) =>
                  /\ call.pc = "done"
                  /\ call.result = Some(Err([kind |-> "UnknownSlot",
                                             name |-> call.slot_name]))
                  /\ Extractions(call) = {}

\* extract_slot failed on a slot that a known intent does not map.
C7_Witness ==
    \E c \in Callers :
        /\ calls[c].op = "extract_slot" /\ calls[c].pc = "done"
        /\ calls[c].intent_name \in DOMAIN dataset_metadata.slot_name_mappings
        /\ calls[c].slot_name \notin
              DOMAIN dataset_metadata.slot_name_mappings[calls[c].intent_name]
        /\ ~calls[c].result.v.ok

\* The slots of a result that went through the builtin path: their entity
\* is not a key of dataset_metadata.entities.
BuiltinSlots(slots) ==
    SelectSeq(slots, LAMBDA slot : slot.entity \notin DOMAIN dataset_metadata.entities)

\* A parse that returned resolved slots.
ParseResolved(call) ==
    /\ call.op = "parse" /\ call.pc = "done"
    /\ call.result.v.ok /\ call.result.v.v.slots.some

\* An extract_slot call on a builtin entity that returned a slot.
BuiltinExtracted(call) ==
    /\ call.op = "extract_slot" /\ call.pc = "done"
    /\ call.entity_name \notin DOMAIN dataset_metadata.entities
    /\ call.result.v.ok /\ call.result.v.v.some

EnterAlone(call) ==
    IF call.op = "parse"
    THEN parse_enter(intent_parsers, call.input, call.intents_filter)
    ELSE extract_slot(dataset_metadata, shared_resources, call.input,
                      call.intent_name, call.slot_name)

\* The next step of a call, on the engine as it is now.
StepAlone(call) ==
    CASE call.pc = "cascade" -> parse_invoke(intent_parsers, call)
      [] call.pc = "resolve" -> parse_resolve(dataset_metadata, shared_resources, call)

RECURSIVE RunAlone(_)
\* The finished call a call becomes when it runs to its end with no other
\* call before or during it.
RunAlone(call) == IF call.pc = "done" THEN call ELSE RunAlone(StepAlone(call))

\* C9: no step of a parse or extract_slot call changes the dataset
\* metadata, the parser list or the shared resources of a loaded engine, and
\* a call that returns, whatever calls ran before it or run beside it, has
\* the outcome of the same call run alone on the engine.
C9_CallsLeaveEngineAlone ==
    /\ [][engine_status = "loaded" => engine_vars' = engine_vars]_vars
    /\ [](\A c \in Callers :
              calls[c].pc = "done" =>
                  /\ RunAlone(EnterAlone(calls[c])).result = calls[c].result
                  /\ RunAlone(EnterAlone(calls[c])).invoked = calls[c].invoked
                  /\ RunAlone(EnterAlone(calls[c])).events = calls[c].events)

\* Two calls are over at once on one engine: a parse that failed in its
\* first parser, and a parse of another text that the second parser matched.
C9_Witness ==
    \E c, d \in Callers :
        /\ c # d
        /\ calls[c].op = "parse" /\ calls[c].pc = "done" /\ ~calls[c].result.v.ok
        /\ calls[c].invoked = <<1>>
        /\ calls[d].op = "parse" /\ calls[d].pc = "done" /\ calls[d].result.v.ok
        /\ calls[d].invoked = <<1, 2>>
        /\ calls[d].result.v.v.intent.some

RECURSIVE IsSubsequence(_, _)
\* s is t with some elements left out.
IsSubsequence(s, t) ==
    IF s = <<>> THEN TRUE
    ELSE IF t = <<>> THEN FALSE
    ELSE IF Head(s) = Head(t) THEN IsSubsequence(Tail(s), Tail(t))
    ELSE IsSubsequence(s, Tail(t))

\* The (slot_name, entity) pairs of a list of slots, in order.
SlotKeys(slots) == [i \in 1..Len(slots) |-> <<slots[i].slot_name, slots[i].entity>>]

\* C10: the slots a successful resolution returns are, by slot_name and in
\* order, a subsequence of the unresolved slots of the parser: never more
\* of them, never reordered, an unresolved slot without a match left out.
C10_ResolvedIsSubsequence ==
    \A c \in Callers :
        ParseResolved(calls[c]) =>
            /\ Len(calls[c].result.v.v.slots.v) <= Len(calls[c].matched.v.slots)
            /\ IsSubsequence(SlotKeys(calls[c].result.v.v.slots.v),
                             SlotKeys(calls[c].matched.v.slots))

\* A resolution dropped the first of four unresolved slots and kept later
\* ones.
C10_Witness ==
    \E c \in Callers :
        /\ ParseResolved(calls[c])
        /\ Len(calls[c].matched.v.slots) = 4
        /\ Len(calls[c].result.v.v.slots.v) = 3
        /\ calls[c].result.v.v.slots.v[1].slot_name # calls[c].matched.v.slots[1].slot_name

====
